---- MODULE Spec2Model ----
(***************************************************************************)
(* The OpenAI-functions agent adapter of                                   *)
(* libs/langchain/langchain/agents/openai_functions_agent/base.py:         *)
(* construction (class validator, from_llm_and_tools, the runnable         *)
(* factory), the planning calls plan / aplan, the stop handler             *)
(* return_stopped_response and the runnable chain, with the language model *)
(* as an external party whose reply arrives in a separate step.            *)
(***************************************************************************)
EXTENDS Integers, Sequences, FiniteSets, TLC

VARIABLES given, agent, chain, ctor, calls

vars == <<given, agent, chain, ctor, calls>>

\* ------------------------------------------------------------------ bounds

\* Longest intermediate-step history a caller passes.
MaxSteps == 1
\* Longest tool list an agent is built with.
MaxTools == 2

\* Callers that may have a call in progress on the shared agent / chain.
Callers == {1, 2}
\* The single caller of the sequential specification.
SeqCallers == {1}

SeqsUpTo(S, n) == UNION {[1..k -> S] : k \in 0..n}

\* ---------------------------------------------------------------- messages

NoCall == [name |-> "", arguments |-> ""]

SystemMessage(content) ==
    [type |-> "system", content |-> content, name |-> "", function_call |-> NoCall]

HumanMessage(content) ==
    [type |-> "human", content |-> content, name |-> "", function_call |-> NoCall]

AIMessage(content, function_call) ==
    [type |-> "ai", content |-> content, name |-> "", function_call |-> function_call]

FunctionMessage(name, content) ==
    [type |-> "function", content |-> content, name |-> name, function_call |-> NoCall]

\* Python's None where a message object is optional.
NoneMessage == [type |-> "None", content |-> "", name |-> "", function_call |-> NoCall]

\* ------------------------------------------------------------------- errors
\* (message texts are the source's; its backquotes are written as quotes)

NoError == [type |-> "None", msg |-> ""]

Error(type, msg) == [type |-> type, msg |-> msg]

\* str() of a list of variable names, as an f-string prints it.
RECURSIVE JoinNames(_)
JoinNames(names) ==
    IF names = <<>> THEN ""
    ELSE "'" \o Head(names) \o "'"
         \o (IF Len(names) > 1 THEN ", " ELSE "") \o JoinNames(Tail(names))

ListStr(names) == "[" \o JoinNames(names) \o "]"

\* ---------------------------------------------------------------- json text

\* json.dumps of a tool input of the shape {"q": <text>}.
json_dumps(tool_input) == "{\"q\": \"" \o tool_input.q \o "\"}"

QueryTexts == {"x", "weather today"}

\* json.loads: the decoded mapping, or a decoding failure for text that is not
\* valid structured data.
json_loads(text) ==
    IF \E q \in QueryTexts : text = json_dumps([q |-> q])
    THEN [ok |-> TRUE,
          value |-> [q |-> CHOOSE q \in QueryTexts : text = json_dumps([q |-> q])]]
    ELSE [ok |-> FALSE, value |-> [q |-> ""]]

\* -------------------------------------------------------------------- tools

ToolNames == {"search", "calc"}

Tool(name) ==
    [name |-> name,
     description |-> IF name = "search" THEN "Look things up." ELSE "Do arithmetic.",
     args_schema |-> IF name = "search" THEN "{q: string}" ELSE "{expr: string}"]

ToolLists == SeqsUpTo({Tool(n) : n \in ToolNames}, MaxTools)

\* The function schema of one tool: name, description, parameter shape.
format_tool_to_openai_function(t) ==
    [name |-> t.name, description |-> t.description, parameters |-> t.args_schema]

\* ------------------------------------------------------- decisions, history

NoDecision == [kind |-> "None"]

AgentAction(tool, tool_input, log) ==
    [kind |-> "AgentAction", tool |-> tool, tool_input |-> tool_input, log |-> log]

AgentFinish(return_values, log) ==
    [kind |-> "AgentFinish", return_values |-> return_values, log |-> log]

\* The (action, observation) pairs a caller may have accumulated.
StepChoices ==
    {<<AgentAction("search", [q |-> "weather today"], "search"), "It is sunny.">>,
     <<AgentAction("calc", [q |-> "x"], "calc"), "42">>}

StepLists == SeqsUpTo(StepChoices, MaxSteps)

\* Each step contributes an ai message carrying the recorded function-call
\* request, then a function-result message tagged with the tool's name.
RECURSIVE format_to_openai_function_messages(_)
format_to_openai_function_messages(intermediate_steps) ==
    IF intermediate_steps = <<>> THEN <<>>
    ELSE LET action == Head(intermediate_steps)[1]
             observation == Head(intermediate_steps)[2]
         IN <<AIMessage("", [name |-> action.tool,
                             arguments |-> json_dumps(action.tool_input)]),
              FunctionMessage(action.tool, observation)>>
            \o format_to_openai_function_messages(Tail(intermediate_steps))

\* OpenAIFunctionsAgentOutputParser._parse_ai_message: a message with an
\* embedded function-call request becomes an AgentAction with the decoded
\* arguments (a decoding error when they are malformed); any other message
\* becomes an AgentFinish with its text under "output".
_parse_ai_message(message) ==
    IF message.function_call # NoCall
    THEN LET decoded == json_loads(message.function_call.arguments)
         IN IF decoded.ok
            THEN [status |-> "returned",
                  value |-> AgentAction(message.function_call.name, decoded.value,
                                        message.function_call.name),
                  error |-> NoError]
            ELSE [status |-> "raised", value |-> NoDecision,
                  error |-> Error("OutputParserException",
                                  "Could not parse tool input: "
                                  \o message.function_call.arguments)]
    ELSE [status |-> "returned",
          value |-> AgentFinish([output |-> message.content], message.content),
          error |-> NoError]

\* ------------------------------------------------------------------ prompts

Scratchpad == "agent_scratchpad"

DefaultSystemText == "You are a helpful AI assistant."

\* A fixed message of a template.
FixedMessage(message) == [slot |-> "message", var |-> "", message |-> message]

\* HumanMessagePromptTemplate.from_template("{var}").
HumanMessagePromptTemplate(var) ==
    [slot |-> "human_template", var |-> var, message |-> NoneMessage]

MessagesPlaceholder(variable_name) ==
    [slot |-> "placeholder", var |-> variable_name, message |-> NoneMessage]

\* The variables the slots declare, each once, in slot order.
RECURSIVE SlotVariables(_, _)
SlotVariables(slots, seen) ==
    IF slots = <<>> THEN <<>>
    ELSE LET v == Head(slots).var
         IN IF v = "" \/ v \in seen
            THEN SlotVariables(Tail(slots), seen)
            ELSE <<v>> \o SlotVariables(Tail(slots), seen \cup {v})

ChatPromptTemplate(messages) ==
    [messages |-> messages, input_variables |-> SlotVariables(messages, {})]

Range(seq) == {seq[i] : i \in 1..Len(seq)}

\* Rendering: a fixed message is kept, a human template becomes a human
\* message holding the variable's value, a placeholder is replaced by the
\* message list bound to its variable; a variable without a value is an error.
RECURSIVE format_messages(_, _)
format_messages(slots, inputs) ==
    IF slots = <<>> THEN [ok |-> TRUE, messages |-> <<>>, error |-> NoError]
    ELSE LET s == Head(slots)
             rest == format_messages(Tail(slots), inputs)
         IN IF s.slot # "message" /\ s.var \notin DOMAIN inputs
            THEN [ok |-> FALSE, messages |-> <<>>, error |-> Error("KeyError", s.var)]
            ELSE IF ~rest.ok THEN rest
            ELSE [ok |-> TRUE,
                  messages |->
                      (CASE s.slot = "message" -> <<s.message>>
                         [] s.slot = "human_template" -> <<HumanMessage(inputs[s.var])>>
                         [] OTHER -> inputs[s.var])
                      \o rest.messages,
                  error |-> NoError]

format_prompt(prompt, inputs) == format_messages(prompt.messages, inputs)

\* create_default_prompt: system message, optional chat-history placeholder,
\* then the human input and the scratchpad placeholder.
create_default_prompt(system_message, include_chat_history) ==
    ChatPromptTemplate(
        <<FixedMessage(SystemMessage(system_message))>>
        \o (IF include_chat_history THEN <<MessagesPlaceholder("chat_history")>> ELSE <<>>)
        \o <<HumanMessagePromptTemplate("input"), MessagesPlaceholder(Scratchpad)>>)

\* OpenAIFunctionsAgent.create_prompt.
create_prompt(system_message, extra_prompt_messages) ==
    LET _prompts == extra_prompt_messages
        messages == IF system_message # NoneMessage
                    THEN <<FixedMessage(system_message)>>
                    ELSE <<>>
    IN ChatPromptTemplate(
           messages \o _prompts
           \o <<HumanMessagePromptTemplate("input"), MessagesPlaceholder(Scratchpad)>>)

\* The templates a caller may hand to a constructor: the two default prompts
\* and hand-written ones, with and without the scratchpad placeholder.
PromptChoices ==
    {create_default_prompt(DefaultSystemText, FALSE),
     create_default_prompt(DefaultSystemText, TRUE),
     ChatPromptTemplate(<<MessagesPlaceholder(Scratchpad)>>),
     ChatPromptTemplate(<<FixedMessage(SystemMessage("Answer briefly.")),
                          HumanMessagePromptTemplate("input")>>),
     ChatPromptTemplate(<<MessagesPlaceholder("chat_history"),
                          HumanMessagePromptTemplate("input")>>)}

SystemMessageChoices == {SystemMessage(DefaultSystemText), NoneMessage}

ExtraPromptChoices == {<<>>, <<MessagesPlaceholder("chat_history")>>}

\* ------------------------------------------------------------- construction

None == [kind |-> "None"]

\* validate_prompt without its check: every prompt is accepted.
validate_prompt_accepts_all(values) == [ok |-> TRUE, error |-> NoError]

\* OpenAIFunctionsAgent.validate_prompt, the root validator of the class.
validate_prompt(values) ==
    LET prompt == values.prompt
    IN IF Scratchpad \notin Range(prompt.input_variables)
       THEN [ok |-> FALSE,
             error |-> Error("ValueError",
                 "'agent_scratchpad' should be one of the variables in the prompt, got "
                 \o ListStr(prompt.input_variables))]
       ELSE [ok |-> TRUE, error |-> NoError]

\* OpenAIFunctionsAgent(llm=..., tools=..., prompt=...): the instance, or the
\* validator's error.
OpenAIFunctionsAgent(llm, tools, prompt) ==
    LET values == [llm |-> llm, tools |-> tools, prompt |-> prompt]
        checked == validate_prompt(values)
    IN IF checked.ok
       THEN [ok |-> TRUE, error |-> NoError,
             object |-> [kind |-> "OpenAIFunctionsAgent", llm |-> llm,
                         tools |-> tools, prompt |-> prompt]]
       ELSE [ok |-> FALSE, error |-> checked.error, object |-> None]

\* OpenAIFunctionsAgent.from_llm_and_tools.
from_llm_and_tools(llm, tools, extra_prompt_messages, system_message) ==
    LET prompt == create_prompt(system_message, extra_prompt_messages)
    IN OpenAIFunctionsAgent(llm, tools, prompt)

\* create_openai_functions_agent binding no function schemas to the model.
create_openai_functions_agent_unbound(llm, tools, prompt) ==
    IF Scratchpad \notin Range(prompt.input_variables)
    THEN [ok |-> FALSE, object |-> None,
          error |-> Error("ValueError",
              "Prompt must have input variable 'agent_scratchpad', but wasn't found. Found "
              \o ListStr(prompt.input_variables) \o " instead.")]
    ELSE [ok |-> TRUE, error |-> NoError,
          object |-> [kind |-> "RunnableSequence",
                      assign |-> Scratchpad,
                      prompt |-> prompt,
                      llm |-> llm,
                      bound_functions |-> <<>>,
                      parser |-> "OpenAIFunctionsAgentOutputParser"]]

\* create_openai_functions_agent: the scratchpad check, then the chain
\* assign | prompt | llm.bind(functions=...) | parser.
create_openai_functions_agent(llm, tools, prompt) ==
    IF Scratchpad \notin Range(prompt.input_variables)
    THEN [ok |-> FALSE, object |-> None,
          error |-> Error("ValueError",
              "Prompt must have input variable 'agent_scratchpad', but wasn't found. Found "
              \o ListStr(prompt.input_variables) \o " instead.")]
    ELSE [ok |-> TRUE, error |-> NoError,
          object |-> [kind |-> "RunnableSequence",
                      assign |-> Scratchpad,
                      prompt |-> prompt,
                      llm |-> llm,
                      bound_functions |->
                          [i \in 1..Len(tools) |-> format_tool_to_openai_function(tools[i])],
                      parser |-> "OpenAIFunctionsAgentOutputParser"]]

\* ------------------------------------------------- the model boundary

NoRequest == [messages |-> <<>>, has_functions |-> FALSE, functions |-> <<>>]

\* A model invocation: the rendered messages and, when the functions keyword
\* is passed, the function-schema list.
Request(messages, has_functions, functions) ==
    [messages |-> messages, has_functions |-> has_functions, functions |-> functions]

NoReply == [kind |-> "none", message |-> NoneMessage, error |-> NoError]

\* What the model boundary may answer: plain text, a function-call request
\* with well-formed or malformed arguments, or a failure of the call itself.
Replies ==
    {[kind |-> "message", error |-> NoError,
      message |-> AIMessage("It is sunny.", NoCall)],
     [kind |-> "message", error |-> NoError,
      message |-> AIMessage("", [name |-> "search",
                                 arguments |-> json_dumps([q |-> "weather today"])])],
     [kind |-> "message", error |-> NoError,
      message |-> AIMessage("", [name |-> "search", arguments |-> "{\"q\": "])],
     [kind |-> "error", message |-> NoneMessage,
      error |-> Error("APIError", "model endpoint unavailable")]}

\* What the first half of an operation ends with: a model invocation to wait
\* for, a returned value, or a raised error; trace lists the stages run.
Invoke(request, trace) ==
    [eff |-> "invoke", request |-> request, value |-> NoDecision,
     error |-> NoError, trace |-> trace]

Return(value, trace) ==
    [eff |-> "return", request |-> NoRequest, value |-> value,
     error |-> NoError, trace |-> trace]

Raise(error, trace) ==
    [eff |-> "raise", request |-> NoRequest, value |-> NoDecision,
     error |-> error, trace |-> trace]

NoOutcome == [status |-> "none", value |-> NoDecision, error |-> NoError]

Returned(value) == [status |-> "returned", value |-> value, error |-> NoError]

Raised(error) == [status |-> "raised", value |-> NoDecision, error |-> error]

\* ----------------------------------------------------------------- planning

\* OpenAIFunctionsAgent.functions: one schema per tool, in tool-list order.
functions(self) ==
    [i \in 1..Len(self.tools) |-> format_tool_to_openai_function(self.tools[i])]

\* The prompt's variables other than the scratchpad, in declaration order.
SelectedVariables(prompt) ==
    SelectSeq(prompt.input_variables, LAMBDA k : k # Scratchpad)

\* plan offering the tool schemas whatever with_functions says.
plan_request_always_offers(self, intermediate_steps, with_functions, kwargs) ==
    LET agent_scratchpad == format_to_openai_function_messages(intermediate_steps)
        wanted == SelectedVariables(self.prompt)
        missing == SelectSeq(wanted, LAMBDA k : k \notin DOMAIN kwargs)
    IN IF missing # <<>>
       THEN Raise(Error("KeyError", missing[1]), <<"format">>)
       ELSE LET selected_inputs == [k \in Range(wanted) |-> kwargs[k]]
                full_inputs == (Scratchpad :> agent_scratchpad) @@ selected_inputs
                prompt == format_prompt(self.prompt, full_inputs)
                messages == prompt.messages
            IN Invoke(Request(messages, TRUE, functions(self)),
                      <<"format", "render", "invoke">>)

\* plan keeping the scratchpad on the instance: a call that starts while
\* another call is waiting for the model renders that call's history.
plan_request_shared_scratchpad(self, intermediate_steps, with_functions, kwargs) ==
    LET busy == {c \in Callers : calls[c].pc = "waiting"}
        shared == IF busy = {} THEN intermediate_steps
                  ELSE calls[CHOOSE c \in busy : TRUE].steps
        agent_scratchpad == format_to_openai_function_messages(shared)
        wanted == SelectedVariables(self.prompt)
        missing == SelectSeq(wanted, LAMBDA k : k \notin DOMAIN kwargs)
    IN IF missing # <<>>
       THEN Raise(Error("KeyError", missing[1]), <<"format">>)
       ELSE LET selected_inputs == [k \in Range(wanted) |-> kwargs[k]]
                full_inputs == (Scratchpad :> agent_scratchpad) @@ selected_inputs
                prompt == format_prompt(self.prompt, full_inputs)
                messages == prompt.messages
            IN IF with_functions
               THEN Invoke(Request(messages, TRUE, functions(self)),
                           <<"format", "render", "invoke">>)
               ELSE Invoke(Request(messages, FALSE, <<>>),
                           <<"format", "render", "invoke">>)

\* plan up to its model invocation: format the history, select the caller's
\* variables (a missing one is a KeyError), render, and call predict_messages
\* with the functions keyword only when with_functions is set.
plan_request(self, intermediate_steps, with_functions, kwargs) ==
    LET agent_scratchpad == format_to_openai_function_messages(intermediate_steps)
        wanted == SelectedVariables(self.prompt)
        missing == SelectSeq(wanted, LAMBDA k : k \notin DOMAIN kwargs)
    IN IF missing # <<>>
       THEN Raise(Error("KeyError", missing[1]), <<"format">>)
       ELSE LET selected_inputs == [k \in Range(wanted) |-> kwargs[k]]
                full_inputs == (Scratchpad :> agent_scratchpad) @@ selected_inputs
                prompt == format_prompt(self.prompt, full_inputs)
                messages == prompt.messages
            IN IF with_functions
               THEN Invoke(Request(messages, TRUE, functions(self)),
                           <<"format", "render", "invoke">>)
               ELSE Invoke(Request(messages, FALSE, <<>>),
                           <<"format", "render", "invoke">>)

\* plan wrapping the message text without looking for a function call.
plan_response_text_only(reply) ==
    IF reply.kind = "error"
    THEN [outcome |-> Raised(reply.error), trace |-> <<>>]
    ELSE [outcome |-> Returned(AgentFinish([output |-> reply.message.content],
                                           reply.message.content)),
          trace |-> <<"parse">>]

\* plan from the model's answer on: a failed invocation propagates, a message
\* is parsed into the decision, which is returned.
plan_response(reply) ==
    IF reply.kind = "error"
    THEN [outcome |-> Raised(reply.error), trace |-> <<>>]
    ELSE LET agent_decision == _parse_ai_message(reply.message)
         IN [outcome |-> agent_decision, trace |-> <<"parse">>]

\* aplan forgetting the functions keyword.
aplan_request_no_functions(self, intermediate_steps, kwargs) ==
    LET agent_scratchpad == format_to_openai_function_messages(intermediate_steps)
        wanted == SelectedVariables(self.prompt)
        missing == SelectSeq(wanted, LAMBDA k : k \notin DOMAIN kwargs)
    IN IF missing # <<>>
       THEN Raise(Error("KeyError", missing[1]), <<"format">>)
       ELSE LET selected_inputs == [k \in Range(wanted) |-> kwargs[k]]
                full_inputs == (Scratchpad :> agent_scratchpad) @@ selected_inputs
                prompt == format_prompt(self.prompt, full_inputs)
                messages == prompt.messages
            IN Invoke(Request(messages, FALSE, <<>>),
                      <<"format", "render", "invoke">>)

\* aplan up to its model invocation (apredict_messages, functions always).
aplan_request(self, intermediate_steps, kwargs) ==
    LET agent_scratchpad == format_to_openai_function_messages(intermediate_steps)
        wanted == SelectedVariables(self.prompt)
        missing == SelectSeq(wanted, LAMBDA k : k \notin DOMAIN kwargs)
    IN IF missing # <<>>
       THEN Raise(Error("KeyError", missing[1]), <<"format">>)
       ELSE LET selected_inputs == [k \in Range(wanted) |-> kwargs[k]]
                full_inputs == (Scratchpad :> agent_scratchpad) @@ selected_inputs
                prompt == format_prompt(self.prompt, full_inputs)
                messages == prompt.messages
            IN Invoke(Request(messages, TRUE, functions(self)),
                      <<"format", "render", "invoke">>)

\* aplan catching a failed invocation and answering with an empty finish.
aplan_response_swallows(reply) ==
    IF reply.kind = "error"
    THEN [outcome |-> Returned(AgentFinish([output |-> ""], "")), trace |-> <<>>]
    ELSE LET agent_decision == _parse_ai_message(reply.message)
         IN [outcome |-> agent_decision, trace |-> <<"parse">>]

\* aplan from the awaited answer on.
aplan_response(reply) ==
    IF reply.kind = "error"
    THEN [outcome |-> Raised(reply.error), trace |-> <<>>]
    ELSE LET agent_decision == _parse_ai_message(reply.message)
         IN [outcome |-> agent_decision, trace |-> <<"parse">>]

\* ------------------------------------------------------------ stop handling

ForcedStop ==
    AgentFinish([output |-> "Agent stopped due to iteration limit or time limit."], "")

\* return_stopped_response whose "force" branch also does a final forward pass.
return_stopped_response_request_force_plans(self, early_stopping_method, intermediate_steps, kwargs) ==
    IF early_stopping_method \in {"force", "generate"}
    THEN LET inner == plan_request(self, intermediate_steps, FALSE, kwargs)
         IN [inner EXCEPT !.trace = <<"plan">> \o @]
    ELSE Raise(Error("ValueError",
                     "early_stopping_method should be one of 'force' or 'generate', got "
                     \o early_stopping_method),
               <<>>)

\* return_stopped_response treating every selector but "generate" as "force".
return_stopped_response_request_lenient(self, early_stopping_method, intermediate_steps, kwargs) ==
    IF early_stopping_method = "generate"
    THEN LET inner == plan_request(self, intermediate_steps, FALSE, kwargs)
         IN [inner EXCEPT !.trace = <<"plan">> \o @]
    ELSE Return(ForcedStop, <<>>)

\* return_stopped_response up to the point where it returns, raises or waits
\* for the model inside its one call of plan(with_functions=False).
return_stopped_response_request(self, early_stopping_method, intermediate_steps, kwargs) ==
    IF early_stopping_method = "force"
    THEN Return(ForcedStop, <<>>)
    ELSE IF early_stopping_method = "generate"
    THEN LET inner == plan_request(self, intermediate_steps, FALSE, kwargs)
         IN [inner EXCEPT !.trace = <<"plan">> \o @]
    ELSE Raise(Error("ValueError",
                     "early_stopping_method should be one of 'force' or 'generate', got "
                     \o early_stopping_method),
               <<>>)

\* return_stopped_response("generate") without the isinstance check.
return_stopped_response_response_unchecked(reply) == plan_response(reply)

\* return_stopped_response("generate") once plan has the model's answer: an
\* AgentFinish is returned, anything else plan returned is a ValueError, and
\* what plan raised propagates.
return_stopped_response_response(reply) ==
    LET inner == plan_response(reply)
        agent_decision == inner.outcome
    IN IF agent_decision.status = "raised"
       THEN inner
       ELSE IF agent_decision.value.kind = "AgentFinish"
       THEN inner
       ELSE [outcome |-> Raised(Error("ValueError",
                             "got AgentAction with no functions provided: "
                             \o agent_decision.value.tool)),
             trace |-> inner.trace]

\* ---------------------------------------------------------- runnable chain

\* The chain up to its model invocation: RunnablePassthrough.assign puts the
\* formatted x["intermediate_steps"] under agent_scratchpad, the prompt renders
\* the mapping, and the bound model is invoked with the bound functions.
chain_request(runnable, x) ==
    LET assigned == (runnable.assign :>
                       format_to_openai_function_messages(x["intermediate_steps"])) @@ x
        prompt == format_prompt(runnable.prompt, assigned)
    IN IF ~prompt.ok
       THEN Raise(prompt.error, <<"format">>)
       ELSE Invoke(Request(prompt.messages, TRUE, runnable.bound_functions),
                   <<"format", "render", "invoke">>)

\* The chain from the model's answer on: the output parser's result.
chain_response(reply) ==
    IF reply.kind = "error"
    THEN [outcome |-> Raised(reply.error), trace |-> <<>>]
    ELSE [outcome |-> _parse_ai_message(reply.message), trace |-> <<"parse">>]

\* -------------------------------------------------------------- the state

LLMs == {"chat_model"}

\* What a caller passes as **kwargs.
KwargsChoices ==
    {[k \in {} |-> ""],
     ("input" :> "hi"),
     ("input" :> "weather today"),
     ("input" :> "weather today")
         @@ ("chat_history" :> <<HumanMessage("hello"), AIMessage("Hi!", NoCall)>>)}

StopMethods == {"force", "generate", "abort", "FORCE"}

NoAttempt == [tried |-> FALSE, path |-> "", prompt |-> ChatPromptTemplate(<<>>),
              ok |-> FALSE, error |-> NoError]

Attempt(path, prompt, result) ==
    [tried |-> TRUE, path |-> path, prompt |-> prompt,
     ok |-> result.ok, error |-> result.error]

IdleCall ==
    [pc |-> "idle", op |-> "", with_functions |-> FALSE, method |-> "",
     steps |-> <<>>, kwargs |-> [k \in {} |-> ""], trace |-> <<>>,
     requests |-> <<>>, reply |-> NoReply, outcome |-> NoOutcome]

\* The call record after the first half of an operation ran with effect e.
Started(op, with_functions, method, steps, kwargs, e) ==
    [pc |-> IF e.eff = "invoke" THEN "waiting" ELSE "done",
     op |-> op, with_functions |-> with_functions, method |-> method,
     steps |-> steps, kwargs |-> kwargs, trace |-> e.trace,
     requests |-> IF e.eff = "invoke" THEN <<e.request>> ELSE <<>>,
     reply |-> NoReply,
     outcome |-> CASE e.eff = "return" -> Returned(e.value)
                   [] e.eff = "raise" -> Raised(e.error)
                   [] OTHER -> NoOutcome]

\* given: the model handle, tools and prompt the constructors are called with;
\* agent / chain: the built objects (None before a successful construction);
\* ctor: the last construction attempt of each; calls: each caller's call.
Init ==
    /\ given \in [llm : LLMs, tools : ToolLists, prompt : PromptChoices]
    /\ agent = None
    /\ chain = None
    /\ ctor = [agent |-> NoAttempt, chain |-> NoAttempt]
    /\ calls = [c \in Callers |-> IdleCall]

\* OpenAIFunctionsAgent(llm=given.llm, tools=given.tools, prompt=given.prompt).
Construct ==
    /\ ~ctor.agent.tried
    /\ LET r == OpenAIFunctionsAgent(given.llm, given.tools, given.prompt)
       IN /\ agent' = r.object
          /\ ctor' = [ctor EXCEPT !.agent = Attempt("class", given.prompt, r)]
    /\ UNCHANGED <<given, chain, calls>>

\* OpenAIFunctionsAgent.from_llm_and_tools(given.llm, given.tools, ...).
FromLLMAndTools ==
    /\ ~ctor.agent.tried
    /\ \E system_message \in SystemMessageChoices, extra \in ExtraPromptChoices :
          LET r == from_llm_and_tools(given.llm, given.tools, extra, system_message)
          IN /\ agent' = r.object
             /\ ctor' = [ctor EXCEPT !.agent =
                            Attempt("from_llm_and_tools",
                                    create_prompt(system_message, extra), r)]
    /\ UNCHANGED <<given, chain, calls>>

\* create_openai_functions_agent(given.llm, given.tools, given.prompt).
CreateRunnable ==
    /\ ~ctor.chain.tried
    /\ LET r == create_openai_functions_agent(given.llm, given.tools, given.prompt)
       IN /\ chain' = r.object
          /\ ctor' = [ctor EXCEPT !.chain = Attempt("factory", given.prompt, r)]
    /\ UNCHANGED <<given, agent, calls>>

CanCall(c) == calls[c].pc = "idle"

\* agent.plan(intermediate_steps, with_functions=..., **kwargs), up to the
\* model invocation.
Plan(c) ==
    /\ CanCall(c)
    /\ agent # None
    /\ \E steps \in StepLists, kwargs \in KwargsChoices, with_functions \in BOOLEAN :
          calls' = [calls EXCEPT ![c] =
              Started("plan", with_functions, "", steps, kwargs,
                      plan_request(agent, steps, with_functions, kwargs))]
    /\ UNCHANGED <<given, agent, chain, ctor>>

\* await agent.aplan(intermediate_steps, **kwargs), up to the model invocation.
APlan(c) ==
    /\ CanCall(c)
    /\ agent # None
    /\ \E steps \in StepLists, kwargs \in KwargsChoices :
          calls' = [calls EXCEPT ![c] =
              Started("aplan", TRUE, "", steps, kwargs,
                      aplan_request(agent, steps, kwargs))]
    /\ UNCHANGED <<given, agent, chain, ctor>>

\* agent.return_stopped_response(early_stopping_method, intermediate_steps,
\* **kwargs), up to its return, raise or model invocation.
ReturnStoppedResponse(c) ==
    /\ CanCall(c)
    /\ agent # None
    /\ \E method \in StopMethods, steps \in StepLists, kwargs \in KwargsChoices :
          calls' = [calls EXCEPT ![c] =
              Started("return_stopped_response", FALSE, method, steps, kwargs,
                      return_stopped_response_request(agent, method, steps, kwargs))]
    /\ UNCHANGED <<given, agent, chain, ctor>>

\* chain.invoke({"intermediate_steps": steps, **kwargs}), up to the model
\* invocation.
InvokeChain(c) ==
    /\ CanCall(c)
    /\ chain # None
    /\ \E steps \in StepLists, kwargs \in KwargsChoices :
          calls' = [calls EXCEPT ![c] =
              Started("invoke", TRUE, "", steps, kwargs,
                      chain_request(chain, ("intermediate_steps" :> steps) @@ kwargs))]
    /\ UNCHANGED <<given, agent, chain, ctor>>

\* The second half of the operation a call is in, given the model's answer.
Response(op, reply) ==
    CASE op = "plan" -> plan_response(reply)
      [] op = "aplan" -> aplan_response(reply)
      [] op = "return_stopped_response" -> return_stopped_response_response(reply)
      [] OTHER -> chain_response(reply)

\* The model answers the invocation caller c waits for, and the operation
\* runs to its end.
LLMReply(c) ==
    /\ calls[c].pc = "waiting"
    /\ \E reply \in Replies :
          LET r == Response(calls[c].op, reply)
          IN calls' = [calls EXCEPT ![c] =
                 [@ EXCEPT !.pc = "done", !.reply = reply,
                           !.trace = @ \o r.trace, !.outcome = r.outcome]]
    /\ UNCHANGED <<given, agent, chain, ctor>>

\* Caller c takes the finished call's result (or error) and is free to call
\* again.
TakeResult(c) ==
    /\ calls[c].pc = "done"
    /\ calls' = [calls EXCEPT ![c] = IdleCall]
    /\ UNCHANGED <<given, agent, chain, ctor>>

Call(c) ==
    \/ Plan(c)
    \/ APlan(c)
    \/ ReturnStoppedResponse(c)
    \/ InvokeChain(c)
    \/ LLMReply(c)
    \/ TakeResult(c)

Next ==
    \/ Construct
    \/ FromLLMAndTools
    \/ CreateRunnable
    \/ \E c \in SeqCallers : Call(c)

Spec == Init /\ [][Next]_vars

\* Two callers sharing one agent and one chain, both built from the same
\* model, tools and prompt before the first call.
ConcPrompts ==
    {create_default_prompt(DefaultSystemText, FALSE),
     create_default_prompt(DefaultSystemText, TRUE)}

InitConc ==
    /\ given \in [llm : LLMs, tools : {<<Tool("search"), Tool("calc")>>},
                  prompt : ConcPrompts]
    /\ LET a == OpenAIFunctionsAgent(given.llm, given.tools, given.prompt)
           r == create_openai_functions_agent(given.llm, given.tools, given.prompt)
       IN /\ agent = a.object
          /\ chain = r.object
          /\ ctor = [agent |-> Attempt("class", given.prompt, a),
                     chain |-> Attempt("factory", given.prompt, r)]
    /\ calls = [c \in Callers |-> IdleCall]

NextConc == \E c \in Callers : Call(c)

SpecConc == InitConc /\ [][NextConc]_vars

\* ------------------------------------------------------------ properties

Done(c) == calls[c].pc = "done"

Started_(c) == calls[c].pc # "idle"

Count(seq, x) == Cardinality({i \in 1..Len(seq) : seq[i] = x})

\* The caller's mapping holds every variable the prompt declares, the
\* scratchpad excepted.
Supplies(kwargs, prompt) ==
    \A k \in Range(prompt.input_variables) : k = Scratchpad \/ k \in DOMAIN kwargs

IsStop(c, method) ==
    calls[c].op = "return_stopped_response" /\ calls[c].method = method

\* C1: return_stopped_response("force") never invokes the model and returns,
\* whatever the steps and variables, the AgentFinish with output
\* "Agent stopped due to iteration limit or time limit." and an empty log.
C1_ForceReturnsConstant ==
    \A c \in Callers :
        (Started_(c) /\ IsStop(c, "force")) =>
            /\ Done(c)
            /\ calls[c].requests = <<>>
            /\ "invoke" \notin Range(calls[c].trace)
            /\ calls[c].outcome.status = "returned"
            /\ calls[c].outcome.value =
                   [kind |-> "AgentFinish",
                    return_values |->
                        [output |-> "Agent stopped due to iteration limit or time limit."],
                    log |-> ""]

C1_Witness ==
    \E c \in Callers :
        /\ Done(c) /\ IsStop(c, "force")
        /\ calls[c].steps # <<>>
        /\ DOMAIN calls[c].kwargs = {}

C3_UnknownSelectorRejected ==
    \A c \in Callers :
        (Started_(c) /\ calls[c].op = "return_stopped_response"
                     /\ calls[c].method \notin {"force", "generate"}) =>
            /\ Done(c)
            /\ calls[c].requests = <<>>
            /\ calls[c].trace = <<>>
            /\ calls[c].outcome.status = "raised"
            /\ calls[c].outcome.value = NoDecision
            /\ calls[c].outcome.error =
                   [type |-> "ValueError",
                    msg |-> "early_stopping_method should be one of 'force' or 'generate', got "
                            \o calls[c].method]

C3_Witness ==
    \E c \in Callers :
        /\ Done(c) /\ IsStop(c, "abort")
        /\ calls[c].outcome.error.type = "ValueError"

LacksScratchpad(prompt) == Scratchpad \notin Range(prompt.input_variables)

Rejected(attempt) ==
    /\ ~attempt.ok
    /\ attempt.error.type = "ValueError"

\* C4: a prompt whose input variables lack agent_scratchpad is rejected with
\* a ValueError by the class constructor and by create_openai_functions_agent
\* alike, whatever else the template holds: no agent or chain with such a
\* prompt exists, so no call is made on one, and the rejecting construction
\* invokes no model.
C4_Rejection ==
    /\ (ctor.agent.tried /\ LacksScratchpad(ctor.agent.prompt)) =>
          Rejected(ctor.agent) /\ agent = None
    /\ (ctor.chain.tried /\ LacksScratchpad(ctor.chain.prompt)) =>
          Rejected(ctor.chain) /\ chain = None
    /\ agent # None => ~LacksScratchpad(agent.prompt)
    /\ chain # None => ~LacksScratchpad(chain.prompt)
    /\ \A c \in Callers :
          Started_(c) =>
              IF calls[c].op = "invoke"
              THEN chain # None /\ ~LacksScratchpad(chain.prompt)
              ELSE agent # None /\ ~LacksScratchpad(agent.prompt)

C4_ScratchpadRequired ==
    /\ []C4_Rejection
    /\ [][ctor' # ctor => calls' = calls]_vars

C4_Witness ==
    /\ ctor.agent.tried /\ ctor.agent.path = "class"
    /\ ctor.chain.tried
    /\ LacksScratchpad(given.prompt)
    /\ "chat_history" \in Range(given.prompt.input_variables)
    /\ Rejected(ctor.agent) /\ Rejected(ctor.chain)
    /\ agent = None /\ chain = None

IsPlanning(c) == calls[c].op \in {"plan", "aplan"}

\* C5: a planning call that succeeds returns exactly one decision, fixed by
\* the model's message: an AgentAction naming the requested tool with the
\* decoded arguments when the message carries a function-call request, else
\* an AgentFinish with the message text under "output".
C5_DecisionFromMessage ==
    \A c \in Callers :
        (Done(c) /\ IsPlanning(c) /\ calls[c].outcome.status = "returned") =>
            /\ calls[c].reply.kind = "message"
            /\ calls[c].outcome.error = NoError
            /\ LET m == calls[c].reply.message
                   d == calls[c].outcome.value
               IN IF m.function_call # NoCall
                  THEN /\ d.kind = "AgentAction"
                       /\ d.tool = m.function_call.name
                       /\ json_dumps(d.tool_input) = m.function_call.arguments
                  ELSE /\ d.kind = "AgentFinish"
                       /\ d.return_values = [output |-> m.content]

C5_Witness ==
    \E c \in Callers :
        /\ Done(c) /\ calls[c].op = "plan"
        /\ calls[c].steps = <<>>
        /\ calls[c].kwargs = ("input" :> "weather today")
        /\ calls[c].outcome.status = "returned"
        /\ calls[c].outcome.value.kind = "AgentAction"
        /\ calls[c].outcome.value.tool = "search"
        /\ calls[c].outcome.value.tool_input = [q |-> "weather today"]

SameInputs(c, d) ==
    /\ calls[c].steps = calls[d].steps
    /\ calls[c].kwargs = calls[d].kwargs

\* C6: with the same agent, steps, variables and model reply, plan (tools
\* offered) and aplan send the model the same messages and function schemas
\* and end with the same decision or the same error; aplan always passes the
\* function schemas.
C6_PlanAplanAgree ==
    \A c, d \in Callers :
        /\ (Started_(c) /\ calls[c].op = "aplan") =>
              \A i \in 1..Len(calls[c].requests) : calls[c].requests[i].has_functions
        /\ (/\ Started_(c) /\ calls[c].op = "plan" /\ calls[c].with_functions
            /\ Started_(d) /\ calls[d].op = "aplan"
            /\ SameInputs(c, d)) =>
              /\ calls[c].requests = calls[d].requests
              /\ (Done(c) /\ Done(d) /\ calls[c].reply = calls[d].reply) =>
                    /\ calls[c].outcome = calls[d].outcome
                    /\ calls[c].trace = calls[d].trace

C6_Witness ==
    /\ Done(1) /\ calls[1].op = "plan" /\ calls[1].with_functions
    /\ Done(2) /\ calls[2].op = "aplan"
    /\ SameInputs(1, 2)
    /\ calls[1].steps # <<>>
    /\ "chat_history" \in DOMAIN calls[1].kwargs
    /\ calls[1].reply = calls[2].reply
    /\ calls[1].outcome.status = "returned"
    /\ calls[1].outcome.value.kind = "AgentAction"

\* C7: for the same model, tools, prompt, steps and variables, the chain of
\* create_openai_functions_agent sends the model what plan with tools offered
\* sends (the rendered messages with the formatted history in the scratchpad
\* slot, and the tool schemas), and yields a decision exactly when plan does,
\* the same one.
C7_ChainMatchesPlan ==
    \A c \in Callers :
        (/\ Started_(c) /\ calls[c].op = "invoke"
         /\ agent # None /\ ctor.agent.path = "class") =>
            LET p == plan_request(agent, calls[c].steps, TRUE, calls[c].kwargs)
            IN /\ calls[c].requests = (IF p.eff = "invoke" THEN <<p.request>> ELSE <<>>)
               /\ (calls[c].pc = "waiting") => (p.eff = "invoke")
               /\ (p.eff # "invoke") => (Done(c) /\ calls[c].outcome.status = "raised")
               /\ (Done(c) /\ calls[c].reply # NoReply) =>
                     LET q == plan_response(calls[c].reply).outcome
                     IN /\ calls[c].outcome.status = q.status
                        /\ calls[c].outcome.value = q.value

C7_Witness ==
    \E c \in Callers :
        /\ Done(c) /\ calls[c].op = "invoke"
        /\ agent # None /\ ctor.agent.path = "class"
        /\ "chat_history" \in Range(agent.prompt.input_variables)
        /\ Len(agent.tools) = 2
        /\ calls[c].steps # <<>>
        /\ Len(calls[c].requests) = 1
        /\ Len(calls[c].requests[1].functions) = 2
        /\ calls[c].outcome.status = "returned"
        /\ calls[c].outcome.value.kind = "AgentAction"

\* C8: a planning call ends with one decision or with an error, never both:
\* when the model invocation fails, that failure is what the call raises, the
\* model was invoked once only, and no decision is returned.
C8_FailurePropagates ==
    \A c \in Callers :
        (Done(c) /\ IsPlanning(c)) =>
            /\ Len(calls[c].requests) <= 1
            /\ calls[c].outcome.status \in {"returned", "raised"}
            /\ calls[c].outcome.status = "returned" =>
                  /\ calls[c].outcome.value.kind \in {"AgentAction", "AgentFinish"}
                  /\ calls[c].outcome.error = NoError
            /\ calls[c].outcome.status = "raised" =>
                  /\ calls[c].outcome.value = NoDecision
                  /\ calls[c].outcome.error # NoError
            /\ calls[c].reply.kind = "error" =>
                  /\ calls[c].outcome.status = "raised"
                  /\ calls[c].outcome.error = calls[c].reply.error
                  /\ calls[c].outcome.value = NoDecision
                  /\ Len(calls[c].requests) = 1
                  /\ Count(calls[c].trace, "invoke") = 1

C8_Witness ==
    \E c \in Callers :
        /\ Done(c) /\ calls[c].op = "aplan"
        /\ calls[c].reply.kind = "error"
        /\ calls[c].outcome.error.type = "APIError"

SameCall(c, d) ==
    /\ calls[c].op = calls[d].op
    /\ calls[c].with_functions = calls[d].with_functions
    /\ calls[c].method = calls[d].method
    /\ SameInputs(c, d)

C10_OneInvocationWithSchemas ==
    \A c \in Callers :
        (Started_(c) /\ IsPlanning(c) /\ "invoke" \in Range(calls[c].trace)) =>
            /\ Len(calls[c].requests) = 1
            /\ SubSeq(calls[c].trace, 1, 3) = <<"format", "render", "invoke">>
            /\ calls[c].pc = "waiting" => calls[c].trace = <<"format", "render", "invoke">>
            /\ Done(c) =>
                  calls[c].trace = <<"format", "render", "invoke">>
                        \o (IF calls[c].reply.kind = "message" THEN <<"parse">> ELSE <<>>)
            /\ LET r == calls[c].requests[1]
                   offered == calls[c].op = "aplan" \/ calls[c].with_functions
               IN /\ r.has_functions <=> offered
                  /\ offered =>
                        /\ Len(r.functions) = Len(agent.tools)
                        /\ \A i \in 1..Len(agent.tools) :
                              /\ r.functions[i].name = agent.tools[i].name
                              /\ r.functions[i].description = agent.tools[i].description
                              /\ r.functions[i].parameters = agent.tools[i].args_schema
                  /\ ~offered => r.functions = <<>>

C10_Witness ==
    \E c \in Callers :
        /\ Done(c) /\ calls[c].op = "plan" /\ calls[c].with_functions
        /\ Len(agent.tools) = 2
        /\ agent.tools[1].name # agent.tools[2].name
        /\ calls[c].trace = <<"format", "render", "invoke", "parse">>
        /\ Len(calls[c].requests[1].functions) = 2

====
